---- MODULE Spec2Model ----
(***************************************************************************)
(* Model of samples/count_tokens.js: runAll awaits eight demo routines in  *)
(* turn; each routine is a straight line of SDK calls, except for the poll *)
(* loop of tokensMultimodalVideoAudioFileApi.  The SDK and the remote      *)
(* service are the environment: every call may return or throw, and the    *)
(* uploaded video's processing state is owned by the remote side.          *)
(***************************************************************************)
EXTENDS Integers, Sequences, FiniteSets, TLC

\* Bound: the remote side answers PROCESSING to at most MaxPolls getFile calls.
MaxPolls == 2

\* FileState of @google/generative-ai/server, as imported by the sample.
FileState == {"STATE_UNSPECIFIED", "PROCESSING", "ACTIVE", "FAILED"}

\* One statement of a routine: the call it makes, whether it is awaited
\* ("await") or completes synchronously ("sync"), the local it reads its
\* remote handle from, the local its result is bound to, and the media path.
Step(op, kind, arg, bind, path) ==
  [op |-> op, kind |-> kind, arg |-> arg, bind |-> bind, path |-> path]

tokensTextOnly ==
  << Step("GoogleGenerativeAI", "sync", "none", "none", ""),
     Step("getGenerativeModel", "sync", "none", "none", ""),
     Step("countTokens", "await", "none", "none", ""),
     Step("generateContent", "await", "none", "none", "") >>

tokensChat ==
  << Step("GoogleGenerativeAI", "sync", "none", "none", ""),
     Step("getGenerativeModel", "sync", "none", "none", ""),
     Step("startChat", "sync", "none", "chat", ""),
     Step("getHistory", "await", "chat", "none", ""),
     Step("countTokens", "await", "none", "none", ""),
     Step("sendMessage", "await", "chat", "none", "") >>

tokensMultimodalImageInline ==
  << Step("GoogleGenerativeAI", "sync", "none", "none", ""),
     Step("getGenerativeModel", "sync", "none", "none", ""),
     Step("readFileSync", "sync", "none", "none", "jetpack.jpg"),
     Step("countTokens", "await", "none", "none", ""),
     Step("generateContent", "await", "none", "none", "") >>

\* Variant: the upload is deleted before generateContent has used it.
tokensMultimodalImageFileApi_DeleteEarly ==
  << Step("GoogleAIFileManager", "sync", "none", "none", ""),
     Step("uploadFile", "await", "none", "uploadResult", "jetpack.jpg"),
     Step("GoogleGenerativeAI", "sync", "none", "none", ""),
     Step("getGenerativeModel", "sync", "none", "none", ""),
     Step("countTokens", "await", "uploadResult", "none", ""),
     Step("deleteFile", "await", "uploadResult", "none", ""),
     Step("generateContent", "await", "uploadResult", "none", "") >>

\* Variant: the upload is never deleted.
tokensMultimodalImageFileApi_NoDelete ==
  << Step("GoogleAIFileManager", "sync", "none", "none", ""),
     Step("uploadFile", "await", "none", "uploadResult", "jetpack.jpg"),
     Step("GoogleGenerativeAI", "sync", "none", "none", ""),
     Step("getGenerativeModel", "sync", "none", "none", ""),
     Step("countTokens", "await", "uploadResult", "none", ""),
     Step("generateContent", "await", "uploadResult", "none", "") >>

tokensMultimodalImageFileApi ==
  << Step("GoogleAIFileManager", "sync", "none", "none", ""),
     Step("uploadFile", "await", "none", "uploadResult", "jetpack.jpg"),
     Step("GoogleGenerativeAI", "sync", "none", "none", ""),
     Step("getGenerativeModel", "sync", "none", "none", ""),
     Step("countTokens", "await", "uploadResult", "none", ""),
     Step("generateContent", "await", "uploadResult", "none", ""),
     Step("deleteFile", "await", "uploadResult", "none", "") >>

\* Variant: the sleep of the poll loop is not awaited.
tokensMultimodalVideoAudioFileApi_NoAwaitSleep ==
  << Step("GoogleAIFileManager", "sync", "none", "none", ""),
     Step("uploadFile", "await", "none", "uploadResult", "Big_Buck_Bunny.mp4"),
     Step("getFile", "await", "uploadResult", "file", ""),
     Step("setTimeout", "nowait", "none", "none", ""),
     Step("getFile", "await", "uploadResult", "file", ""),
     Step("GoogleGenerativeAI", "sync", "none", "none", ""),
     Step("getGenerativeModel", "sync", "none", "none", ""),
     Step("countTokens", "await", "uploadResult", "none", ""),
     Step("generateContent", "await", "uploadResult", "none", ""),
     Step("deleteFile", "await", "uploadResult", "none", "") >>

\* Steps 4 and 5 are the body of the while loop.
tokensMultimodalVideoAudioFileApi ==
  << Step("GoogleAIFileManager", "sync", "none", "none", ""),
     Step("uploadFile", "await", "none", "uploadResult", "Big_Buck_Bunny.mp4"),
     Step("getFile", "await", "uploadResult", "file", ""),
     Step("setTimeout", "await", "none", "none", ""),
     Step("getFile", "await", "uploadResult", "file", ""),
     Step("GoogleGenerativeAI", "sync", "none", "none", ""),
     Step("getGenerativeModel", "sync", "none", "none", ""),
     Step("countTokens", "await", "uploadResult", "none", ""),
     Step("generateContent", "await", "uploadResult", "none", ""),
     Step("deleteFile", "await", "uploadResult", "none", "") >>

\* Variant: the routine uploads nothing of its own and builds the cache from
\* whatever `uploadResult` holds.
tokensCachedContent_NoUpload ==
  << Step("GoogleAICacheManager", "sync", "none", "none", ""),
     Step("cacheManager.create", "await", "uploadResult", "cacheResult", ""),
     Step("GoogleGenerativeAI", "sync", "none", "none", ""),
     Step("getGenerativeModel", "sync", "none", "none", ""),
     Step("countTokens", "await", "cacheResult", "none", ""),
     Step("generateContent", "await", "none", "none", ""),
     Step("cacheManager.delete", "await", "cacheResult", "none", "") >>

tokensCachedContent ==
  << Step("GoogleAIFileManager", "sync", "none", "none", ""),
     Step("uploadFile", "await", "none", "uploadResult", "a11.txt"),
     Step("GoogleAICacheManager", "sync", "none", "none", ""),
     Step("cacheManager.create", "await", "uploadResult", "cacheResult", ""),
     Step("GoogleGenerativeAI", "sync", "none", "none", ""),
     Step("getGenerativeModel", "sync", "none", "none", ""),
     Step("countTokens", "await", "cacheResult", "none", ""),
     Step("generateContent", "await", "none", "none", ""),
     Step("cacheManager.delete", "await", "cacheResult", "none", "") >>

tokensSystemInstruction ==
  << Step("GoogleGenerativeAI", "sync", "none", "none", ""),
     Step("getGenerativeModel", "sync", "none", "none", ""),
     Step("countTokens", "await", "none", "none", "") >>

tokensTools ==
  << Step("GoogleGenerativeAI", "sync", "none", "none", ""),
     Step("getGenerativeModel", "sync", "none", "none", ""),
     Step("countTokens", "await", "none", "none", "") >>

Video == "tokensMultimodalVideoAudioFileApi"

Script(r) ==
  CASE r = "tokensTextOnly" -> tokensTextOnly
    [] r = "tokensChat" -> tokensChat
    [] r = "tokensMultimodalImageInline" -> tokensMultimodalImageInline
    [] r = "tokensMultimodalImageFileApi" -> tokensMultimodalImageFileApi
    [] r = Video -> tokensMultimodalVideoAudioFileApi
    [] r = "tokensCachedContent" -> tokensCachedContent
    [] r = "tokensSystemInstruction" -> tokensSystemInstruction
    [] r = "tokensTools" -> tokensTools

\* Variant: the cache demo runs before the video demo.
runAll_Swapped ==
  << "tokensTextOnly", "tokensChat", "tokensMultimodalImageInline",
     "tokensMultimodalImageFileApi", "tokensCachedContent", Video,
     "tokensSystemInstruction", "tokensTools" >>

\* The routines runAll awaits, in order.
runAll ==
  << "tokensTextOnly", "tokensChat", "tokensMultimodalImageInline",
     "tokensMultimodalImageFileApi", Video, "tokensCachedContent",
     "tokensSystemInstruction", "tokensTools" >>

\* Variant: the loop compares with a string no state ever equals.
LoopCond_WrongCase(s) == s = "processing"

\* Variant: the loop also waits while the state is unspecified.
LoopCond_WhileUnspecified(s) == s \in {"PROCESSING", "STATE_UNSPECIFIED"}

\* while (file.state === FileState.PROCESSING)
LoopCond(s) == s = "PROCESSING"

\* Variant: the check tests the wrong state.
FailedCheck_WrongState(s) == s = "STATE_UNSPECIFIED"

\* Variant: the check compares with a string no state ever equals.
FailedCheck_Never(s) == s = "failed"

\* if (file.state === FileState.FAILED) throw
FailedCheck(s) == s = "FAILED"

\* Positions in tokensMultimodalVideoAudioFileApi: the sleep that opens the
\* loop body, and the first statement after the if that follows the loop.
PollSleepIp == 4
PollExitIp == 6

VARIABLES
  plan,         \* the routines this run of runAll awaits, in order
  status,       \* runAll's promise: "running", "done" or "aborted"
  error,        \* the error runAll was rejected with
  rt,           \* index in runAll of the current routine
  ip,           \* statement of the current routine (0: not entered yet)
  waiting,      \* log index of the call the routine is suspended on, or 0
  pending,      \* calls and timers issued and not yet settled
  log,          \* every call issued so far, in order
  env,          \* locals of the current routine invocation
  started,      \* routines entered so far, in order
  created,      \* handles handed out so far (the handle is the index)
  live,         \* remote files and caches that exist
  remoteState,  \* the remote processing state of the uploaded video
  responses,    \* the states getFile has returned to the poll
  failed        \* log index of the call that threw, or 0

vars == << plan, status, error, rt, ip, waiting, pending, log, env, started,
           created, live, remoteState, responses, failed >>

\* Variant: runAll catches the error of a routine and goes on to the next.
Throw_Swallowed(i, p, err) ==
  [status |-> "running", rt |-> i + 1, ip |-> 0, error |-> "none"]

\* An exception leaves the routine and runAll: nothing catches it.
Throw(i, p, err) == [status |-> "aborted", rt |-> i, ip |-> p, error |-> err]

\* Where control goes when statement p of routine plan[i] has completed;
\* f is the value of the local `file` at that point.
Continue(i, p, f) ==
  LET r == plan[i]
      st == Script(r)[p]
  IN  IF st.bind = "file"
        THEN IF LoopCond(f)
               THEN [status |-> "running", rt |-> i, ip |-> PollSleepIp, error |-> "none"]
               ELSE IF FailedCheck(f)
                      THEN Throw(i, p, "Video processing failed.")
                      ELSE [status |-> "running", rt |-> i, ip |-> PollExitIp, error |-> "none"]
        ELSE IF p = Len(Script(r))
               THEN [status |-> "running", rt |-> i + 1, ip |-> 0, error |-> "none"]
               ELSE [status |-> "running", rt |-> i, ip |-> p + 1, error |-> "none"]

\* The locals of a routine invocation before any statement has run.
Env0 == [uploadResult |-> 0, cacheResult |-> 0, chat |-> 0, file |-> "none"]

\* The remote handle a statement passes to its call (0: none, or undefined).
Arg(st, e) == IF st.arg = "none" THEN 0 ELSE e[st.arg]

\* The kind of handle a result binding creates.
HandleKind(bind) ==
  CASE bind = "uploadResult" -> "file"
    [] bind = "cacheResult" -> "cache"
    [] bind = "chat" -> "chat"
    [] OTHER -> "none"

Start ==
  /\ status = "running"
  /\ error = "none"
  /\ rt = 1
  /\ ip = 0
  /\ waiting = 0
  /\ pending = {}
  /\ log = << >>
  /\ env = Env0
  /\ started = << >>
  /\ created = << >>
  /\ live = {}
  /\ remoteState = "NONE"
  /\ responses = << >>
  /\ failed = 0

\* The file as it stands: runAll awaits all eight routines.
Init == plan = runAll /\ Start

\* "Comment out or delete any sample cases you don't want to run."
InitSubset ==
  /\ \E S \in SUBSET {runAll[k] : k \in 1..Len(runAll)} :
       plan = SelectSeq(runAll, LAMBDA r : r \in S)
  /\ Start

Goto(c) ==
  /\ status' = c.status
  /\ error' = c.error
  /\ rt' = c.rt
  /\ ip' = c.ip

AtRoutineBoundary == status = "running" /\ ip = 0 /\ waiting = 0

AtStep ==
  /\ status = "running"
  /\ waiting = 0
  /\ rt <= Len(plan)
  /\ ip >= 1

CurStep == Script(plan[rt])[ip]

Entry(st) ==
  [id |-> Len(log) + 1, inv |-> Len(started), rt |-> plan[rt], ip |-> ip, op |-> st.op,
   kind |-> st.kind, arg |-> st.arg, h |-> Arg(st, env), bind |-> st.bind,
   path |-> st.path]

\* runAll calls the next routine: a fresh invocation with fresh locals.
Call ==
  /\ AtRoutineBoundary
  /\ rt <= Len(plan)
  /\ started' = Append(started, plan[rt])
  /\ ip' = 1
  /\ env' = Env0
  /\ UNCHANGED << plan, status, error, rt, waiting, pending, log, created, live,
                  remoteState, responses, failed >>

\* The last routine has returned: runAll's promise is fulfilled.
Finish ==
  /\ AtRoutineBoundary
  /\ rt = Len(plan) + 1
  /\ status' = "done"
  /\ UNCHANGED << plan, error, rt, ip, waiting, pending, log, env, started,
                  created, live, remoteState, responses, failed >>

\* A synchronous call (constructor, getGenerativeModel, startChat,
\* readFileSync) returns normally.
SyncCall ==
  /\ AtStep
  /\ CurStep.kind = "sync"
  /\ log' = Append(log, Entry(CurStep))
  /\ IF CurStep.bind = "none"
       THEN UNCHANGED << created, env >>
       ELSE /\ created' = Append(created, [kind |-> HandleKind(CurStep.bind),
                                            path |-> CurStep.path,
                                            by |-> Len(started)])
            /\ env' = [env EXCEPT ![CurStep.bind] = Len(created) + 1]
  /\ Goto(Continue(rt, ip, env.file))
  /\ UNCHANGED << plan, waiting, pending, started, live, remoteState,
                  responses, failed >>

\* A synchronous call throws.
SyncThrow ==
  /\ AtStep
  /\ CurStep.kind = "sync"
  /\ log' = Append(log, Entry(CurStep))
  /\ failed' = Len(log) + 1
  /\ Goto(Throw(rt, ip, "sdk"))
  /\ UNCHANGED << plan, waiting, pending, env, started, created, live,
                  remoteState, responses >>

\* An asynchronous call is issued; the routine suspends on it if it is awaited.
Issue ==
  /\ AtStep
  /\ CurStep.kind # "sync"
  /\ log' = Append(log, Entry(CurStep))
  /\ pending' = pending \cup {Entry(CurStep)}
  /\ IF CurStep.kind = "await"
       THEN /\ waiting' = Len(log) + 1
            /\ UNCHANGED << status, error, rt, ip >>
       ELSE /\ waiting' = 0
            /\ Goto(Continue(rt, ip, env.file))
  /\ UNCHANGED << plan, env, started, created, live, remoteState, responses,
                  failed >>

\* Whether the remote side may answer request q now.
CanAnswer(q) ==
  q.op = "getFile" =>
    /\ remoteState \in FileState
    /\ remoteState = "PROCESSING" =>
         Cardinality({k \in 1..Len(responses) : responses[k] = "PROCESSING"}) < MaxPolls

\* The locals after request q has returned a result.
Bound(q) ==
  CASE q.bind = "file" -> [env EXCEPT !.file = remoteState]
    [] q.bind \in {"uploadResult", "cacheResult"} ->
         [env EXCEPT ![q.bind] = Len(created) + 1]
    [] OTHER -> env

\* An SDK promise is fulfilled and the routine that awaits it resumes.
Resolve ==
  \E q \in pending :
    /\ q.op # "setTimeout"
    /\ CanAnswer(q)
    /\ pending' = pending \ {q}
    /\ created' = IF q.bind \in {"uploadResult", "cacheResult"}
                    THEN Append(created, [kind |-> HandleKind(q.bind),
                                          path |-> q.path,
                                          by |-> Len(started)])
                    ELSE created
    /\ live' = IF q.bind \in {"uploadResult", "cacheResult"}
                 THEN live \cup {Len(created) + 1}
                 ELSE IF q.op \in {"deleteFile", "cacheManager.delete"}
                        THEN live \ {q.h}
                        ELSE live
    /\ \E s \in FileState :
         remoteState' = IF q.op = "uploadFile" /\ q.rt = Video
                          THEN s ELSE remoteState
    /\ responses' = IF q.op = "getFile"
                      THEN Append(responses, remoteState) ELSE responses
    /\ IF status = "running" /\ waiting = q.id
         THEN /\ waiting' = 0
              /\ env' = Bound(q)
              /\ Goto(Continue(rt, ip, Bound(q).file))
         ELSE UNCHANGED << status, error, rt, ip, waiting, env >>
    /\ UNCHANGED << plan, log, started, failed >>

\* An SDK promise is rejected; the await rethrows in the routine.
Reject ==
  \E q \in pending :
    /\ q.op # "setTimeout"
    /\ pending' = pending \ {q}
    /\ IF status = "running" /\ waiting = q.id
         THEN /\ waiting' = 0
              /\ failed' = q.id
              /\ Goto(Throw(rt, ip, "sdk"))
         ELSE UNCHANGED << status, error, rt, ip, waiting, failed >>
    /\ UNCHANGED << plan, log, env, started, created, live, remoteState,
                    responses >>

\* The 10 second timer of the poll loop fires.
Timeout ==
  \E q \in pending :
    /\ q.op = "setTimeout"
    /\ pending' = pending \ {q}
    /\ IF status = "running" /\ waiting = q.id
         THEN /\ waiting' = 0
              /\ Goto(Continue(rt, ip, env.file))
         ELSE UNCHANGED << status, error, rt, ip, waiting >>
    /\ UNCHANGED << plan, log, env, started, created, live, remoteState,
                    responses, failed >>

\* The remote service finishes processing the video, one way or another.
RemoteProgress ==
  /\ remoteState = "PROCESSING"
  /\ \E s \in FileState \ {"PROCESSING"} : remoteState' = s
  /\ UNCHANGED << plan, status, error, rt, ip, waiting, pending, log, env,
                  started, created, live, responses, failed >>

Next ==
  \/ Call
  \/ Finish
  \/ SyncCall
  \/ SyncThrow
  \/ Issue
  \/ Resolve
  \/ Reject
  \/ Timeout
  \/ RemoteProgress

Spec == Init /\ [][Next]_vars

\* Every call eventually settles, the event loop runs what is runnable, and
\* the remote side eventually finishes processing.
SpecSubset == InitSubset /\ [][Next]_vars

FairSpec ==
  /\ Spec
  /\ WF_vars(Call) /\ WF_vars(Finish) /\ WF_vars(SyncCall \/ SyncThrow)
  /\ WF_vars(Issue) /\ WF_vars(Resolve \/ Reject) /\ WF_vars(Timeout)
  /\ WF_vars(RemoteProgress)

(***************************************************************************)
(* Vocabulary of the properties.                                           *)
(***************************************************************************)
Deletes == {"deleteFile", "cacheManager.delete"}

LogIdx == 1..Len(log)

\* Calls of the video routine with one of the given operations.
VideoCalls(ops) == {k \in LogIdx : log[k].rt = Video /\ log[k].op \in ops}

ProcessingSeen ==
  Cardinality({k \in 1..Len(responses) : responses[k] = "PROCESSING"})

LastResponse == IF responses = << >> THEN "none" ELSE responses[Len(responses)]

LaterRoutines == {"tokensCachedContent", "tokensSystemInstruction", "tokensTools"}

LaterStarted == \E k \in 1..Len(started) : started[k] \in LaterRoutines

\* The video routine has issued a call that follows its poll loop.
PastPoll == \E k \in LogIdx : log[k].rt = Video /\ log[k].ip >= PollExitIp

\* C1: when the poll loop of tokensMultimodalVideoAudioFileApi exits with
\* state FAILED, runAll is rejected with "Video processing failed.": no
\* countTokens, generateContent or deleteFile is issued for the video and
\* none of the routines after it is started.
C1_FailedAborts ==
  LastResponse = "FAILED" =>
    /\ status = "aborted"
    /\ error = "Video processing failed."
    /\ VideoCalls({"countTokens", "generateContent", "deleteFile"}) = {}
    /\ ~LaterStarted

C1_Witness ==
  /\ LastResponse = "FAILED"
  /\ Len(responses) >= 2
  /\ status = "aborted"

\* C2: while the most recently fetched state is PROCESSING nothing but the
\* poll runs (no countTokens or generateContent on the video, no later
\* routine); the poll alternates getFile, sleep, getFile, ..., each sleep
\* answering one PROCESSING response, and once the routine is past the loop
\* or the run has stopped, getFile was called 1 + (PROCESSING responses) times.
C2_PollBlocks ==
  LET polls == VideoCalls({"getFile", "setTimeout"})
      g == Cardinality(VideoCalls({"getFile"}))
      s == Cardinality(VideoCalls({"setTimeout"}))
  IN  /\ LastResponse = "PROCESSING" =>
           /\ VideoCalls({"countTokens", "generateContent"}) = {}
           /\ ~LaterStarted
           /\ status # "done"
      /\ \A k \in polls :
           log[k].op = (IF Cardinality({j \in polls : j < k}) % 2 = 0
                          THEN "getFile" ELSE "setTimeout")
      /\ s <= ProcessingSeen
      /\ g <= ProcessingSeen + 1
      /\ (g >= 1 /\ (PastPoll \/ LaterStarted \/ status # "running")) =>
           (g = ProcessingSeen + 1 /\ s = ProcessingSeen)

C2_Witness ==
  /\ ProcessingSeen = MaxPolls
  /\ VideoCalls({"countTokens"}) # {}
  /\ Cardinality(VideoCalls({"getFile"})) = MaxPolls + 1

\* C3: the routines start in the order tokensTextOnly, tokensChat,
\* tokensMultimodalImageInline, tokensMultimodalImageFileApi,
\* tokensMultimodalVideoAudioFileApi, tokensCachedContent,
\* tokensSystemInstruction, tokensTools, none twice, and each one only after
\* every call of the one before it, its last call included, has returned.
C3_Order ==
  LET order == << "tokensTextOnly", "tokensChat",
                  "tokensMultimodalImageInline",
                  "tokensMultimodalImageFileApi",
                  "tokensMultimodalVideoAudioFileApi",
                  "tokensCachedContent", "tokensSystemInstruction",
                  "tokensTools" >>
      n == Len(started)
  IN  /\ n <= Len(order)
      /\ \A k \in 1..n : started[k] = order[k]
      /\ \A q \in pending : q.inv = n
      /\ \A k \in 1..(n - 1) :
           LET sc == Script(started[k])
               mine == {j \in LogIdx : log[j].inv = k}
           IN  /\ \A p \in 1..Len(sc) :
                    (started[k] = Video /\ p \in {PollSleepIp, PollSleepIp + 1})
                    \/ \E j \in mine : log[j].ip = p /\ log[j].op = sc[p].op
               /\ \A j \in mine : \A i \in LogIdx : log[i].inv > k => j < i

C3_Witness == status = "done" /\ Len(started) = 8 /\ pending = {}

\* C4: a call that throws is the last call the run ever issues: it is not
\* issued again, its routine makes no further call, no later routine starts,
\* and runAll is rejected with the SDK's error.
C4_FailurePropagates ==
  failed # 0 =>
    /\ status = "aborted"
    /\ error = "sdk"
    /\ Len(log) = failed
    /\ log[failed].inv = Len(started)
    /\ waiting = 0

C4_Witness ==
  /\ failed # 0
  /\ log[failed].op = "getFile"
  /\ ProcessingSeen >= 1
  /\ status = "aborted"

\* C5: at most one call or timer is outstanding at any time, it is the one
\* the current routine is suspended on, and no call is issued while the
\* sleep timer of the poll loop is pending.
C5_Sequential ==
  /\ Cardinality(pending) <= 1
  /\ \A q \in pending : q.id = waiting /\ q.id = Len(log)
  /\ (\E q \in pending : q.op = "setTimeout") => log[Len(log)].op = "setTimeout"

C5_Witness ==
  /\ \E q \in pending : q.op = "setTimeout"
  /\ ProcessingSeen = MaxPolls

\* C6: every handle a call passes (uploaded file, cache, chat session) was
\* returned by an earlier call of the same routine invocation, and the calls
\* of an invocation are the statements of its routine from the first one on,
\* whatever routines ran before it.
C6_Independent ==
  /\ \A k \in LogIdx :
       /\ log[k].op = Script(log[k].rt)[log[k].ip].op
       /\ log[k].arg = Script(log[k].rt)[log[k].ip].arg
       /\ log[k].arg # "none" =>
            /\ log[k].h \in 1..Len(created)
            /\ created[log[k].h].by = log[k].inv
            /\ created[log[k].h].kind = HandleKind(log[k].arg)
       /\ log[k].arg = "none" => log[k].h = 0
  /\ \A k \in LogIdx :
       IF k = 1 \/ log[k - 1].inv # log[k].inv
         THEN log[k].ip = 1
         ELSE \/ log[k].ip = log[k - 1].ip + 1
              \/ /\ log[k].rt = Video
                 /\ log[k - 1].op = "getFile"
                 /\ log[k].ip \in {PollSleepIp, PollExitIp}

C6_Witness ==
  /\ plan = << "tokensMultimodalImageFileApi", "tokensCachedContent" >>
  /\ \E k \in LogIdx : log[k].op = "cacheManager.delete" /\ log[k].h = 3
  /\ status = "done"

\* The poll loop is left at the first response that is not PROCESSING: no
\* response follows such a response, no sleep is issued for it, and the
\* routine goes past the loop only after one.
PollExitExact ==
  /\ \A k \in 1..(Len(responses) - 1) : responses[k] = "PROCESSING"
  /\ Cardinality(VideoCalls({"setTimeout"})) <= ProcessingSeen
  /\ Cardinality(VideoCalls({"getFile"})) <= ProcessingSeen + 1
  /\ PastPoll => LastResponse \notin {"none", "PROCESSING"}
  /\ ( /\ LastResponse \notin {"none", "PROCESSING"}
       /\ status = "running" /\ rt <= Len(plan) /\ plan[rt] = Video /\ ip >= 1 )
       => ip >= PollExitIp

\* C7: if every call eventually returns and the remote file eventually leaves
\* PROCESSING, runAll terminates (completes or aborts), and the poll loop is
\* left exactly at the first response that is not PROCESSING.
C7_PollTerminates == []PollExitExact /\ <>(status # "running")

C7_Witness ==
  /\ status = "done"
  /\ ProcessingSeen = MaxPolls
  /\ Len(responses) = MaxPolls + 1

\* C8: a file or cache handle is passed to a call only once the call that
\* created it has returned and never after its delete has been issued, and a
\* delete is the last call of its routine.
C8_Lifecycle ==
  /\ \A k \in LogIdx :
       log[k].arg \in {"uploadResult", "cacheResult"} =>
         /\ log[k].h \in 1..Len(created)
         /\ \A j \in 1..(k - 1) :
              ~(log[j].op \in Deletes /\ log[j].h = log[k].h)
  /\ \A j \in LogIdx :
       log[j].op \in Deletes =>
         \A k \in LogIdx : k > j => log[k].inv # log[j].inv

C8_Witness ==
  /\ \E q \in pending : q.op = "cacheManager.delete"
  /\ Cardinality({k \in LogIdx : log[k].op \in Deletes}) = 3

\* A handle's delete call has been issued and has returned.
Deleted(h) ==
  /\ \E k \in LogIdx : log[k].op \in Deletes /\ log[k].h = h
  /\ h \notin live

Remote == {h \in 1..Len(created) : created[h].kind \in {"file", "cache"}}

\* C9 as stated: when runAll completes, every remote resource the run
\* created (jetpack.jpg, Big_Buck_Bunny.mp4, a11.txt, the cache) has been
\* deleted.
C9_Original == status = "done" => \A h \in Remote : Deleted(h)

\* C9, amended: when runAll completes, the uploads of jetpack.jpg and
\* Big_Buck_Bunny.mp4 and the cache have been deleted; the upload of a11.txt
\* has not: no deleteFile was ever issued for it and it still exists.
C9_AllButTranscript ==
  status = "done" =>
    /\ Cardinality(Remote) = 4
    /\ \A h \in Remote :
         IF created[h].path = "a11.txt"
           THEN h \in live /\ ~(\E k \in LogIdx : log[k].op \in Deletes /\ log[k].h = h)
           ELSE Deleted(h)

C9_Witness == status = "done" /\ Cardinality(live) = 1 /\ ProcessingSeen >= 1

\* C10 as stated: countTokens on the video is reached only when the most
\* recently fetched state is ACTIVE.
C10_Original == VideoCalls({"countTokens"}) # {} => LastResponse = "ACTIVE"

\* C10, amended: countTokens and generateContent on the video are reached
\* only when the most recently fetched state is neither PROCESSING nor
\* FAILED, so with ACTIVE or with STATE_UNSPECIFIED.
C10_NotProcessingNotFailed ==
  VideoCalls({"countTokens", "generateContent"}) # {} =>
    LastResponse \in {"ACTIVE", "STATE_UNSPECIFIED"}

C10_Witness ==
  /\ VideoCalls({"countTokens"}) # {}
  /\ LastResponse = "STATE_UNSPECIFIED"
  /\ ProcessingSeen >= 1

====
